---- MODULE Spec2Model ----
(***************************************************************************)
(* Routing engine of the disaster network simulator (lib/dijkstra):        *)
(* NetworkGraph built from a node list and a connection list, and its      *)
(* queries findShortestPath, findAllPaths and broadcastPath.               *)
(*                                                                         *)
(* Numbers: an edge weight is distance * 10 + latency / 10.  The model     *)
(* holds every weight and every cost in TENTHS, so that latency / 10 is    *)
(* exact for an integer latency: a weight of 11 is the number 110 here.    *)
(* A JavaScript Map or Set is a sequence in insertion order.               *)
(***************************************************************************)
EXTENDS Integers, Sequences, FiniteSets, TLC

\* ------------------------------------------------------------------ bounds
\* The longest connection list drawn.
MaxLinks == 3

\* The longest connection list the messages view holds.
MaxViewLinks == 2

\* The longest connection list beside the node snapshot of the SOS handler.
MaxSosLinks == 1

\* The most message records the storage holds.
MaxMessages == 2

\* The longest connection list of the termination runs.
MaxTermLinks == 3

\* The most connection rows the storage holds.
MaxStoreLinks == 2

\* The most nodes POST /api/nodes adds beside the start-up.
MaxPostedNodes == 2

\* ------------------------------------------------------------- input sets
\* The node ids a node list or a link may name.  A node list is a prefix of
\* AllIds, so an id past the prefix is an id absent from the topology.
AllIds == <<"A", "B", "C">>

Ids == {AllIds[i] : i \in 1..Len(AllIds)}

\* (distance, latency) pairs of a link: weight 0 and weight 11.
Metrics == {<<0, 0>>, <<1, 10>>}

\* ------------------------------------------------------- JavaScript values
\* The number Infinity; it is compared only through Less and Plus.
Infinity == -1

\* null where the code has `string | null`; no node id equals it.
NullId == "<null>"

\* The null RoutingResult.
null == [isNull |-> TRUE]

\* a < b on numbers that may be Infinity.
Less(a, b) ==
  IF a = Infinity THEN FALSE
  ELSE IF b = Infinity THEN TRUE
  ELSE a < b

\* a + w where a may be Infinity.
Plus(a, w) == IF a = Infinity THEN Infinity ELSE a + w

\* `x || dflt` on a number x: 0 is falsy, so it yields dflt.
OrNumber(x, dflt) == IF x = 0 THEN dflt ELSE x

\* ------------------------------------------------------------ Map helpers
\* A Map is a sequence of [key, value] entries in insertion order.
MapKeys(m) == [i \in 1..Len(m) |-> m[i].key]

MapHas(m, k) == \E i \in 1..Len(m) : m[i].key = k

MapGet(m, k) == m[CHOOSE i \in 1..Len(m) : m[i].key = k].value

\* Map.set: an existing key keeps its place and takes the new value.
MapSet(m, k, v) ==
  IF MapHas(m, k)
  THEN [i \in 1..Len(m) |-> IF m[i].key = k THEN [key |-> k, value |-> v] ELSE m[i]]
  ELSE Append(m, [key |-> k, value |-> v])

SeqToSet(s) == {s[i] : i \in 1..Len(s)}

Contains(s, x) == \E i \in 1..Len(s) : s[i] = x

\* Set.delete / removal of one element from a sequence without duplicates.
Remove(s, x) == SelectSeq(s, LAMBDA y : y # x)

\* --------------------------------------------------------------- topology
VARIABLES
  nodeList,      \* the caller's node records
  connections,   \* the caller's connection records
  nodes,         \* NetworkGraph.nodes: Map nodeId -> node
  adjacencyList, \* NetworkGraph.adjacencyList: Map nodeId -> Map nodeId -> weight
  call,          \* the query last made on the graph
  result,        \* what that query returned
  iterations,    \* passes of the search loop that query began
  messages,      \* the message records the server has stored
  pc,            \* where initializeDefaultData stands
  bluetooth,     \* the fields of the BluetoothDiscoveryService
  stats          \* the stats of the NetworkSimulation

vars ==
  <<nodeList, connections, nodes, adjacencyList, call, result, iterations, messages,
    pc, bluetooth, stats>>

\* The variables of the server start-up, the Bluetooth service and the
\* simulation, which the routing engine, the messages view and the request
\* handlers do not touch.
serviceVars == <<pc, bluetooth, stats>>

\* No start-up, Bluetooth service or simulation is part of the run.
NoServices ==
  /\ pc = "none"
  /\ bluetooth = [isNull |-> TRUE]
  /\ stats = [isNull |-> TRUE]

\* calculateEdgeWeight, in tenths.
calculateEdgeWeight(conn) == conn.distance * 100 + conn.latency

\* adjacencyList.get(a).set(b, weight) that first gives a missing a a map.
AddEdge_CreateMissing(adj, a, b, weight) ==
  IF MapHas(adj, a)
  THEN MapSet(adj, a, MapSet(MapGet(adj, a), b, weight))
  ELSE MapSet(adj, a, <<[key |-> b, value |-> weight]>>)

\* adjacencyList.get(a)?.set(b, weight) that keeps the weight of a neighbor
\* already present.
AddEdge_KeepFirst(adj, a, b, weight) ==
  IF MapHas(adj, a) /\ ~MapHas(MapGet(adj, a), b)
  THEN MapSet(adj, a, MapSet(MapGet(adj, a), b, weight))
  ELSE adj

\* adjacencyList.get(a)?.set(b, weight)
AddEdge(adj, a, b, weight) ==
  IF MapHas(adj, a)
  THEN MapSet(adj, a, MapSet(MapGet(adj, a), b, weight))
  ELSE adj

\* One step of connections.forEach without the isActive test.
AddConnection_AnyLink(adj, conn) ==
  LET weight == calculateEdgeWeight(conn)
  IN  AddEdge(AddEdge(adj, conn.fromNodeId, conn.toNodeId, weight),
              conn.toNodeId, conn.fromNodeId, weight)

\* One step of connections.forEach that inserts the from -> to direction only.
AddConnection_OneWay(adj, conn) ==
  IF conn.isActive
  THEN AddEdge(adj, conn.fromNodeId, conn.toNodeId, calculateEdgeWeight(conn))
  ELSE adj

\* One step of connections.forEach in the constructor.
AddConnection(adj, conn) ==
  IF conn.isActive
  THEN LET weight == calculateEdgeWeight(conn)
       IN  AddEdge(AddEdge(adj, conn.fromNodeId, conn.toNodeId, weight),
                   conn.toNodeId, conn.fromNodeId, weight)
  ELSE adj

RECURSIVE AddConnections(_, _, _)
AddConnections(adj, conns, i) ==
  IF i > Len(conns) THEN adj
  ELSE AddConnections(AddConnection(adj, conns[i]), conns, i + 1)

RECURSIVE InitNodes(_, _, _)
\* nodes.forEach in the constructor: both maps get the node's id.
InitNodes(g, ns, i) ==
  IF i > Len(ns) THEN g
  ELSE InitNodes([nodes |-> MapSet(g.nodes, ns[i].nodeId, ns[i]),
                  adjacencyList |-> MapSet(g.adjacencyList, ns[i].nodeId, <<>>)],
                 ns, i + 1)

\* new NetworkGraph(nodes, connections)
NetworkGraph(ns, conns) ==
  LET g0 == InitNodes([nodes |-> <<>>, adjacencyList |-> <<>>], ns, 1)
  IN  [nodes |-> g0.nodes,
       adjacencyList |-> AddConnections(g0.adjacencyList, conns, 1)]

\* The graph object the state holds.
Graph == [nodes |-> nodes, adjacencyList |-> adjacencyList]

\* ------------------------------------------------------- findShortestPath
NodeKeys(g) == MapKeys(g.nodes)

\* `m.get(k) || dflt` on a Map<string, number> held as a function: a missing
\* key reads undefined, and undefined and 0 are both falsy.
GetNumberOr(m, k, dflt) == IF k \in DOMAIN m THEN OrNumber(m[k], dflt) ELSE dflt

\* `previous.get(k) || null`
GetPrevious(m, k) == IF k \in DOMAIN m THEN m[k] ELSE NullId

\* The guard of the first return: both ids must be keys of this.nodes.
EndpointsKnown_Unchecked(g, start, end) == TRUE

EndpointsKnown_OnlineOnly(g, start, end) ==
  /\ MapHas(g.nodes, start) /\ MapGet(g.nodes, start).isOnline
  /\ MapHas(g.nodes, end) /\ MapGet(g.nodes, end).isOnline

EndpointsKnown(g, start, end) == MapHas(g.nodes, start) /\ MapHas(g.nodes, end)

\* The guard of the degenerate return.
IsSelfRoute_Never(start, end) == FALSE

IsSelfRoute(start, end) == start = end

SelfRoute_OneHop(start) == [path |-> <<start>>, totalDistance |-> 0, hops |-> 1]

SelfRoute(start) == [path |-> <<start>>, totalDistance |-> 0, hops |-> 0]

\* distances, previous and unvisited after the initialisation loop.
InitSearch(g, start) ==
  [distances |-> [id \in SeqToSet(NodeKeys(g)) |-> IF id = start THEN 0 ELSE Infinity],
   previous |-> [id \in SeqToSet(NodeKeys(g)) |-> NullId],
   unvisited |-> NodeKeys(g),
   iterations |-> 0]

\* The stored distance itself, a 0 read as 0.
SelectionDistance_Plain(distances, nodeId) == distances[nodeId]

\* The tentative distance the selection loop reads for nodeId: a stored 0
\* (the start's distance) is falsy and reads as Infinity.
SelectionDistance(distances, nodeId) == GetNumberOr(distances, nodeId, Infinity)

RECURSIVE SelectMin(_, _, _, _)
\* The inner for loop that finds the unvisited node of minimum distance;
\* acc is [current, minDistance], i the position in Array.from(unvisited).
SelectMin(unvisited, distances, i, acc) ==
  IF i > Len(unvisited) THEN acc
  ELSE LET nodeId == unvisited[i]
           distance == SelectionDistance(distances, nodeId)
       IN  SelectMin(unvisited, distances, i + 1,
                     IF Less(distance, acc.minDistance)
                     THEN [current |-> nodeId, minDistance |-> distance]
                     ELSE acc)

RECURSIVE Relax(_, _, _, _)
\* The for loop over the neighbors of current; i is the position in
\* Array.from(neighbors).
Relax(s, current, neighbors, i) ==
  IF i > Len(neighbors) THEN s
  ELSE LET neighbor == neighbors[i].key
           weight == neighbors[i].value
           newDistance == Plus(GetNumberOr(s.distances, current, 0), weight)
       IN  IF Contains(s.unvisited, neighbor)
              /\ Less(newDistance, GetNumberOr(s.distances, neighbor, Infinity))
           THEN Relax([s EXCEPT !.distances[neighbor] = newDistance,
                                !.previous[neighbor] = current],
                      current, neighbors, i + 1)
           ELSE Relax(s, current, neighbors, i + 1)

\* One pass of the while loop on state s (unvisited not empty): the node the
\* selection picked, the state the pass leaves, and whether the loop ends
\* with it (the break on no selection, the break at the destination).
SearchPass(g, end, s) ==
  LET sel == SelectMin(s.unvisited, s.distances, 1,
                       [current |-> NullId, minDistance |-> Infinity])
      s0 == [s EXCEPT !.iterations = @ + 1]
  IN  IF sel.current = NullId \/ sel.minDistance = Infinity
      THEN [current |-> sel.current, s |-> s0, stop |-> TRUE]
      ELSE LET s1 == [s0 EXCEPT !.unvisited = Remove(@, sel.current)]
           IN  IF sel.current = end
               THEN [current |-> sel.current, s |-> s1, stop |-> TRUE]
               ELSE [current |-> sel.current,
                     s |-> IF MapHas(g.adjacencyList, sel.current)
                           THEN Relax(s1, sel.current,
                                      MapGet(g.adjacencyList, sel.current), 1)
                           ELSE s1,
                     stop |-> FALSE]

RECURSIVE SearchLoop(_, _, _)
\* The while (unvisited.size > 0) loop; iterations counts the passes begun.
SearchLoop(g, end, s) ==
  IF Len(s.unvisited) = 0 THEN s
  ELSE LET pass == SearchPass(g, end, s)
       IN  IF pass.stop THEN pass.s ELSE SearchLoop(g, end, pass.s)

RECURSIVE ReconstructPath(_, _, _)
\* The while (current !== null) loop: path.unshift(current), then current
\* becomes previous.get(current) || null.
ReconstructPath(previous, current, path) ==
  IF current = NullId THEN path
  ELSE ReconstructPath(previous, GetPrevious(previous, current), <<current>> \o path)

\* The test that lets the reconstructed path be returned.
PathStartsAt_Unchecked(path, start) == TRUE

PathStartsAt(path, start) == path[1] = start

\* One call of findShortestPath: the value it returns and the number of
\* passes of the search loop it began.
FindShortestPathRun(g, start, end) ==
  IF ~EndpointsKnown(g, start, end)
  THEN [value |-> null, iterations |-> 0]
  ELSE IF IsSelfRoute(start, end)
  THEN [value |-> SelfRoute(start), iterations |-> 0]
  ELSE LET s == SearchLoop(g, end, InitSearch(g, start))
           path == ReconstructPath(s.previous, end, <<>>)
       IN  [value |-> IF ~PathStartsAt(path, start)
                      THEN null
                      ELSE [path |-> path,
                            totalDistance |-> GetNumberOr(s.distances, end, 0),
                            hops |-> Len(path) - 1],
            iterations |-> s.iterations]

findShortestPath(g, start, end) == FindShortestPathRun(g, start, end).value

\* ------------------------------------------------------------ findAllPaths
\* The `if (result)` guard of findAllPaths.
IsTruthyResult_Always(r) == TRUE

IsTruthyResult(r) == r # null

RECURSIVE FindAllPathsLoop(_, _, _, _)
\* The for loop over this.nodes.keys(); results is the Map built so far.
FindAllPathsLoop(g, start, i, results) ==
  IF i > Len(NodeKeys(g)) THEN results
  ELSE LET nodeId == NodeKeys(g)[i]
           r == findShortestPath(g, start, nodeId)
       IN  FindAllPathsLoop(g, start, i + 1,
             IF nodeId # start /\ IsTruthyResult(r)
             THEN MapSet(results, nodeId, r)
             ELSE results)

findAllPaths(g, start) == FindAllPathsLoop(g, start, 1, <<>>)

\* ----------------------------------------------------------- broadcastPath
getConnectedNodes(g, nodeId) ==
  IF MapHas(g.adjacencyList, nodeId)
  THEN MapKeys(MapGet(g.adjacencyList, nodeId))
  ELSE <<>>

\* The queue broadcastPath starts from.
InitialQueue_KnownOnly(g, start) == IF MapHas(g.nodes, start) THEN <<start>> ELSE <<>>

InitialQueue_Twice(g, start) == <<start, start>>

InitialQueue(g, start) == <<start>>

\* The `if (visited.has(current)) continue` test on a dequeued id.
AlreadyVisited_Never(visited, current) == FALSE

AlreadyVisited(visited, current) == current \in visited

RECURSIVE BroadcastLoop(_, _)
\* The while (queue.length > 0) loop; s is [visited, queue, broadcastOrder]
\* and shifts, the number of queue.shift() calls made.
BroadcastLoop(g, s) ==
  IF Len(s.queue) = 0 THEN s
  ELSE LET current == Head(s.queue)
           rest == Tail(s.queue)
       IN  IF AlreadyVisited(s.visited, current)
           THEN BroadcastLoop(g, [s EXCEPT !.queue = rest, !.shifts = @ + 1])
           ELSE LET visited == s.visited \cup {current}
                    neighbors == getConnectedNodes(g, current)
                IN  BroadcastLoop(g,
                      [visited |-> visited,
                       queue |-> rest \o SelectSeq(neighbors, LAMBDA n : n \notin visited),
                       broadcastOrder |-> Append(s.broadcastOrder, current),
                       shifts |-> s.shifts + 1])

\* One call of broadcastPath: the state its loop ends in.
BroadcastRun(g, start) ==
  BroadcastLoop(g, [visited |-> {}, queue |-> InitialQueue(g, start),
                    broadcastOrder |-> <<>>, shifts |-> 0])

broadcastPath(g, start) == BroadcastRun(g, start).broadcastOrder

\* calculateOptimalRoute and calculateBroadcastRoute build a graph per call.
calculateOptimalRoute(ns, conns, from, to) ==
  findShortestPath(NetworkGraph(ns, conns), from, to)

calculateBroadcastRoute(ns, conns, from) ==
  broadcastPath(NetworkGraph(ns, conns), from)

\* ------------------------------------------------------------ state machine
Node(id) == [nodeId |-> id, isOnline |-> TRUE]

\* The node lists drawn: the first k ids of AllIds, for every k.
NodeLists == {[i \in 1..k |-> Node(AllIds[i])] : k \in 0..Len(AllIds)}

\* The connection records drawn: every pair of distinct ids, one direction
\* each (the constructor inserts both directions of a link, into the maps of
\* two different nodes, so the direction a link is stored in changes nothing
\* in the graph built); an active link of weight 0 or 11, or an inactive
\* link, whose distance and latency the constructor never reads.
LinkPool ==
  {[fromNodeId |-> AllIds[p[1]], toNodeId |-> AllIds[p[2]], distance |-> m[1],
    latency |-> m[2], isActive |-> a] :
     p \in {q \in (1..Len(AllIds)) \X (1..Len(AllIds)) : q[1] < q[2]},
     m \in Metrics, a \in BOOLEAN}
  \ {l \in [fromNodeId : Ids, toNodeId : Ids, distance : {0}, latency : {0},
            isActive : {FALSE}] : TRUE}

RECURSIVE SeqsUpTo(_, _)
\* The sequences over S of length at most n.
SeqsUpTo(S, n) ==
  IF n = 0 THEN {<<>>}
  ELSE LET shorter == SeqsUpTo(S, n - 1)
       IN  shorter \cup {Append(q, x) : q \in shorter, x \in S}

NoCall == [op |-> "none", start |-> NullId, end |-> NullId]

Init ==
  /\ nodeList \in NodeLists
  /\ connections \in SeqsUpTo(LinkPool, MaxLinks)
  /\ nodes = NetworkGraph(nodeList, connections).nodes
  /\ adjacencyList = NetworkGraph(nodeList, connections).adjacencyList
  /\ call = NoCall
  /\ result = null
  /\ iterations = 0
  /\ messages = <<>>
  /\ NoServices

\* graph.findShortestPath(start, end)
FindShortestPathCall ==
  /\ UNCHANGED serviceVars
  /\ \E start \in Ids, end \in Ids :
         LET run == FindShortestPathRun(Graph, start, end)
         IN  /\ call' = [op |-> "findShortestPath", start |-> start, end |-> end]
             /\ result' = run.value
             /\ iterations' = run.iterations
             /\ UNCHANGED <<nodeList, connections, nodes, adjacencyList, messages>>

\* graph.findAllPaths(start)
FindAllPathsCall ==
  \E start \in Ids :
    /\ UNCHANGED serviceVars
    /\ call' = [op |-> "findAllPaths", start |-> start, end |-> NullId]
    /\ result' = findAllPaths(Graph, start)
    /\ iterations' = 0
    /\ UNCHANGED <<nodeList, connections, nodes, adjacencyList, messages>>

\* graph.broadcastPath(start) that empties the neighbor map of every node it
\* visits.
BroadcastPathCall_Consuming ==
  \E start \in Ids :
    /\ UNCHANGED serviceVars
    /\ call' = [op |-> "broadcastPath", start |-> start, end |-> NullId]
    /\ result' = broadcastPath(Graph, start)
    /\ iterations' = 0
    /\ adjacencyList' =
         [i \in 1..Len(adjacencyList) |->
            [key |-> adjacencyList[i].key,
             value |-> IF Contains(result', adjacencyList[i].key)
                       THEN <<>> ELSE adjacencyList[i].value]]
    /\ UNCHANGED <<nodeList, connections, nodes, messages>>

\* graph.broadcastPath(start)
BroadcastPathCall ==
  \E start \in Ids :
    /\ UNCHANGED serviceVars
    /\ call' = [op |-> "broadcastPath", start |-> start, end |-> NullId]
    /\ result' = broadcastPath(Graph, start)
    /\ iterations' = 0
    /\ UNCHANGED <<nodeList, connections, nodes, adjacencyList, messages>>

Next ==
  \/ FindShortestPathCall
  \/ FindAllPathsCall
  \/ BroadcastPathCall

Spec == Init /\ [][Next]_vars

\* The caller's record of one active link turns inactive, and the graph is
\* built again from the records, as calculateOptimalRoute does on every call.
DeactivateLink ==
  \E i \in 1..Len(connections) :
    /\ UNCHANGED serviceVars
    /\ connections[i].isActive
    /\ connections' = [connections EXCEPT ![i].isActive = FALSE]
    /\ nodes' = NetworkGraph(nodeList, connections').nodes
    /\ adjacencyList' = NetworkGraph(nodeList, connections').adjacencyList
    /\ call' = [op |-> "deactivateLink", start |-> connections[i].fromNodeId,
                end |-> connections[i].toNodeId]
    /\ result' = null
    /\ iterations' = 0
    /\ UNCHANGED <<nodeList, messages>>

NextRebuild == DeactivateLink

\* Topologies and the topologies they turn into as links go inactive.
SpecRebuild == Init /\ [][NextRebuild]_vars

\* The connection records drawn for the termination runs: an active link of
\* weight 11 between any two ids, a node's link to itself included, and a
\* link A-B of weight 0.
TermLinkPool ==
  {[fromNodeId |-> AllIds[p[1]], toNodeId |-> AllIds[p[2]], distance |-> 1,
    latency |-> 10, isActive |-> TRUE] :
     p \in {q \in (1..Len(AllIds)) \X (1..Len(AllIds)) : q[1] <= q[2]}}
  \cup {[fromNodeId |-> AllIds[1], toNodeId |-> AllIds[2], distance |-> 0,
         latency |-> 0, isActive |-> TRUE]}

\* A graph built from a node list and a list of such links, no query made.
InitTerm ==
  /\ nodeList \in NodeLists
  /\ connections \in SeqsUpTo(TermLinkPool, MaxTermLinks)
  /\ nodes = NetworkGraph(nodeList, connections).nodes
  /\ adjacencyList = NetworkGraph(nodeList, connections).adjacencyList
  /\ call = NoCall
  /\ result = null
  /\ iterations = 0
  /\ messages = <<>>
  /\ NoServices

\* The queries on topologies with cycles, self-links, parallel links and
\* links to absent ids.
SpecTerm == InitTerm /\ [][Next]_vars

\* ------------------------------------------- messages view and SOS handler
\* The ids of the lists the messages view and the server hold: the view's own
\* node "user" first, as the storage seeds it, and two relay nodes.
ViewIds == <<"user", "A", "B">>

ViewIdSet == {ViewIds[i] : i \in 1..Len(ViewIds)}

\* The node lists drawn: the first k ids of ViewIds, each node online or not.
ViewNodeLists ==
  UNION {{[i \in 1..k |-> [nodeId |-> ViewIds[i], isOnline |-> o[i]]] :
            o \in [1..k -> BOOLEAN]} : k \in 0..Len(ViewIds)}

\* The connection records drawn, as LinkPool over ViewIds.
ViewLinkPool ==
  {[fromNodeId |-> ViewIds[p[1]], toNodeId |-> ViewIds[p[2]], distance |-> m[1],
    latency |-> m[2], isActive |-> a] :
     p \in {q \in (1..Len(ViewIds)) \X (1..Len(ViewIds)) : q[1] < q[2]},
     m \in Metrics, a \in BOOLEAN}
  \ {l \in [fromNodeId : ViewIdSet, toNodeId : ViewIdSet, distance : {0},
            latency : {0}, isActive : {FALSE}] : TRUE}

\* The lists the messages view holds, nothing sent yet.
InitView ==
  /\ nodeList \in ViewNodeLists
  /\ connections \in SeqsUpTo(ViewLinkPool, MaxViewLinks)
  /\ nodes = NetworkGraph(nodeList, connections).nodes
  /\ adjacencyList = NetworkGraph(nodeList, connections).adjacencyList
  /\ call = NoCall
  /\ result = null
  /\ iterations = 0
  /\ messages = <<>>
  /\ NoServices

\* sendMessageMutation.mutationFn(content) and the POST /api/messages it
\* makes: the first online node other than "user" is the recipient; without
\* one the mutation throws and nothing is posted.
SendMessage ==
  /\ UNCHANGED serviceVars
  /\ LET onlineNodes ==
             SelectSeq(nodeList, LAMBDA node : node.isOnline /\ node.nodeId # "user")
       IN  /\ iterations' = 0
           /\ UNCHANGED <<nodeList, connections, nodes, adjacencyList>>
           /\ IF Len(onlineNodes) = 0
              THEN /\ call' = [op |-> "sendMessage", start |-> "user", end |-> NullId]
                   /\ result' = [status |-> "error"]
                   /\ UNCHANGED messages
              ELSE LET targetNode == onlineNodes[1]
                       routingResult ==
                         calculateOptimalRoute(nodeList, connections, "user", targetNode.nodeId)
                       routingPath == IF routingResult # null
                                      THEN routingResult.path
                                      ELSE <<"user", targetNode.nodeId>>
                       message == [senderId |-> "user",
                                   receiverId |-> targetNode.nodeId,
                                   content |-> "hello",
                                   messageType |-> "normal",
                                   routingPath |-> routingPath,
                                   hops |-> Len(routingPath) - 1]
                   IN  /\ Len(messages) < MaxMessages
                       /\ call' = [op |-> "sendMessage", start |-> "user",
                                   end |-> targetNode.nodeId]
                       /\ messages' = Append(messages, message)
                       /\ result' = [status |-> "sent", message |-> message]

\* calculateOptimalRoute(nodes, connections, from, to)
OptimalRouteCall ==
  \E from \in ViewIdSet, to \in ViewIdSet :
    /\ UNCHANGED serviceVars
    /\ call' = [op |-> "calculateOptimalRoute", start |-> from, end |-> to]
    /\ result' = calculateOptimalRoute(nodeList, connections, from, to)
    /\ iterations' = 0
    /\ UNCHANGED <<nodeList, connections, nodes, adjacencyList, messages>>

\* calculateBroadcastRoute(nodes, connections, from)
BroadcastRouteCall ==
  \E from \in ViewIdSet :
    /\ UNCHANGED serviceVars
    /\ call' = [op |-> "calculateBroadcastRoute", start |-> from, end |-> NullId]
    /\ result' = calculateBroadcastRoute(nodeList, connections, from)
    /\ iterations' = 0
    /\ UNCHANGED <<nodeList, connections, nodes, adjacencyList, messages>>

NextView ==
  \/ SendMessage
  \/ OptimalRouteCall
  \/ BroadcastRouteCall

SpecView == InitView /\ [][NextView]_vars

\* The connection rows beside the node snapshot: an active link between each
\* two ids and an inactive one.
SosLinkPool ==
  {l \in ViewLinkPool : l.distance = 1 /\ (l.isActive \/ l.fromNodeId = "user")}

\* The node snapshot and connection list of the server, no message stored.
InitSos ==
  /\ nodeList \in ViewNodeLists
  /\ connections \in SeqsUpTo(SosLinkPool, MaxSosLinks)
  /\ nodes = NetworkGraph(nodeList, connections).nodes
  /\ adjacencyList = NetworkGraph(nodeList, connections).adjacencyList
  /\ call = NoCall
  /\ result = null
  /\ iterations = 0
  /\ messages = <<>>
  /\ NoServices

\* The content and location of a request body: content given; content empty
\* and location given; neither given.
SosBodies ==
  {[content |-> "help", hasLocation |-> TRUE],
   [content |-> "", hasLocation |-> TRUE],
   [content |-> "", hasLocation |-> FALSE]}

\* The filter of the SOS handler that also keeps the sender.
IsSosRecipient_AnyOnline(node, senderId) == node.isOnline

\* The filter of the SOS handler over the node snapshot.
IsSosRecipient(node, senderId) == node.isOnline /\ node.nodeId # senderId

\* POST /api/sos: one createMessage per recipient, started in the order of
\* the snapshot and awaited together.  With an empty content and no location
\* the default content reads location.latitude of undefined for the first
\* recipient and the handler answers 500 before any message is created.
\* Each insert may be rejected by the database (failed holds the positions of
\* those); the others are stored, and one rejection makes the answer 500.
SosPost ==
  /\ UNCHANGED serviceVars
  /\ \E senderId \in ViewIdSet, body \in SosBodies :
       LET onlineNodes == SelectSeq(nodeList, LAMBDA node : IsSosRecipient(node, senderId))
           sosMessages ==
             [i \in 1..Len(onlineNodes) |->
                [senderId |-> senderId,
                 receiverId |-> onlineNodes[i].nodeId,
                 content |-> IF body.content # "" THEN body.content ELSE "SOS Alert",
                 messageType |-> "sos",
                 routingPath |-> <<senderId, onlineNodes[i].nodeId>>,
                 hops |-> 1]]
       IN  /\ call' = [op |-> "sos", start |-> senderId, end |-> NullId]
           /\ iterations' = 0
           /\ UNCHANGED <<nodeList, connections, nodes, adjacencyList>>
           /\ IF Len(onlineNodes) > 0 /\ body.content = "" /\ ~body.hasLocation
              THEN /\ result' = [status |-> 500]
                   /\ UNCHANGED messages
              ELSE \E failed \in SUBSET (1..Len(onlineNodes)) :
                     LET stored == SelectSeq(sosMessages,
                                     LAMBDA m : \A k \in failed : sosMessages[k] # m)
                     IN  /\ Len(messages) + Len(stored) <= MaxMessages
                         /\ messages' = messages \o stored
                         /\ result' = IF failed # {}
                                      THEN [status |-> 500]
                                      ELSE [status |-> 200,
                                            recipientCount |-> Len(onlineNodes),
                                            messages |-> sosMessages]

NextSos == SosPost

SpecSos == InitSos /\ [][NextSos]_vars

\* ------------------------------------------------------ connection storage
\* The connection rows drawn: a row from any id to any other id, active or
\* not.
StoreLinkPool ==
  {[fromNodeId |-> AllIds[p[1]], toNodeId |-> AllIds[p[2]], distance |-> 1,
    latency |-> 10, isActive |-> a] :
     p \in {q \in (1..Len(AllIds)) \X (1..Len(AllIds)) : q[1] # q[2]},
     a \in BOOLEAN}

\* The network_connections table with some rows in it.
InitStore ==
  /\ nodeList = <<>>
  /\ connections \in SeqsUpTo(StoreLinkPool, MaxStoreLinks)
  /\ nodes = <<>>
  /\ adjacencyList = <<>>
  /\ call = NoCall
  /\ result = null
  /\ iterations = 0
  /\ messages = <<>>
  /\ NoServices

\* storage.updateConnectionStatus(fromNodeId, toNodeId, isActive): the update
\* runs on the rows the where clause keeps, those from fromNodeId.
UpdateConnectionStatus ==
  \E fromNodeId \in Ids, toNodeId \in Ids, isActive \in BOOLEAN :
    /\ connections' =
         [i \in 1..Len(connections) |->
            IF connections[i].fromNodeId = fromNodeId
            THEN [connections[i] EXCEPT !.isActive = isActive]
            ELSE connections[i]]
    /\ call' = [op |-> "updateConnectionStatus", start |-> fromNodeId,
                end |-> toNodeId]
    /\ result' = null
    /\ iterations' = 0
    /\ UNCHANGED <<nodeList, nodes, adjacencyList, messages, serviceVars>>

\* storage.getConnectionsForNode(nodeId), as GET /api/connections/:nodeId
\* answers it.
GetConnectionsForNode ==
  \E nodeId \in Ids :
    /\ call' = [op |-> "getConnectionsForNode", start |-> nodeId, end |-> NullId]
    /\ result' = SelectSeq(connections, LAMBDA c : c.fromNodeId = nodeId)
    /\ iterations' = 0
    /\ UNCHANGED <<nodeList, connections, nodes, adjacencyList, messages, serviceVars>>

NextStore ==
  \/ UpdateConnectionStatus
  \/ GetConnectionsForNode

SpecStore == InitStore /\ [][NextStore]_vars

\* ------------------------------------------------------- server start-up
\* The rows initializeDefaultData inserts: nodes, connections, messages.
defaultNodes ==
  <<[nodeId |-> "user", isOnline |-> TRUE, name |-> "default"],
    [nodeId |-> "A", isOnline |-> TRUE, name |-> "default"]>>

defaultConnections ==
  <<[fromNodeId |-> "user", toNodeId |-> "A", distance |-> 1, latency |-> 10,
     isActive |-> TRUE]>>

sampleMessages ==
  <<[senderId |-> "A", receiverId |-> "user", content |-> "Welcome",
     messageType |-> "system", routingPath |-> <<"A", "user">>, hops |-> 1]>>

\* The node ids a POST /api/nodes may bring: one of a default node, one new.
PostedIds == {"A", "X"}

PostedNode(id) == [nodeId |-> id, isOnline |-> TRUE, name |-> "posted"]

\* The node ids stored.
StoredIds == {nodeList[i].nodeId : i \in 1..Len(nodeList)}

\* The constructor has called initializeDefaultData, which has not yet run
\* its first query; the database is empty or holds a node from an earlier
\* run.
InitBoot ==
  /\ nodeList \in {<<>>, <<PostedNode("X")>>}
  /\ connections = <<>>
  /\ nodes = <<>>
  /\ adjacencyList = <<>>
  /\ call = NoCall
  /\ result = null
  /\ iterations = 0
  /\ messages = <<>>
  /\ pc = [at |-> "check", emptyAtStart |-> nodeList = <<>>]
  /\ bluetooth = [isNull |-> TRUE]
  /\ stats = [isNull |-> TRUE]

\* `existingNodes = await db.select().from(networkNodes).limit(1)` and the
\* return when a node exists.
BootCheck ==
  /\ pc.at = "check"
  /\ pc' = [pc EXCEPT !.at = IF Len(nodeList) > 0 THEN "done" ELSE "insertNodes"]
  /\ UNCHANGED <<nodeList, connections, nodes, adjacencyList, call, result,
                 iterations, messages, bluetooth, stats>>

\* `await db.insert(networkNodes).values(defaultNodes)`: node_id is unique,
\* so with one of the ids stored already the insert is rejected whole and
\* the catch block ends the initialization.
BootInsertNodes ==
  /\ pc.at = "insertNodes"
  /\ IF \E i \in 1..Len(defaultNodes) : defaultNodes[i].nodeId \in StoredIds
     THEN /\ pc' = [pc EXCEPT !.at = "done"]
          /\ UNCHANGED nodeList
     ELSE /\ pc' = [pc EXCEPT !.at = "insertConnections"]
          /\ nodeList' = nodeList \o defaultNodes
  /\ UNCHANGED <<connections, nodes, adjacencyList, call, result, iterations,
                 messages, bluetooth, stats>>

\* `await db.insert(networkConnections).values(defaultConnections)`
BootInsertConnections ==
  /\ pc.at = "insertConnections"
  /\ pc' = [pc EXCEPT !.at = "insertMessages"]
  /\ connections' = connections \o defaultConnections
  /\ UNCHANGED <<nodeList, nodes, adjacencyList, call, result, iterations,
                 messages, bluetooth, stats>>

\* `await db.insert(messages).values(sampleMessages)`
BootInsertMessages ==
  /\ pc.at = "insertMessages"
  /\ pc' = [pc EXCEPT !.at = "done"]
  /\ messages' = messages \o sampleMessages
  /\ UNCHANGED <<nodeList, connections, nodes, adjacencyList, call, result,
                 iterations, bluetooth, stats>>

\* POST /api/nodes: 201 with the node stored, 500 when its node_id is taken.
PostNode ==
  \E id \in PostedIds :
    /\ Cardinality({i \in 1..Len(nodeList) : nodeList[i].name = "posted"}) < MaxPostedNodes
    /\ call' = [op |-> "postNode", start |-> id, end |-> NullId]
    /\ iterations' = 0
    /\ IF id \in StoredIds
       THEN /\ result' = [status |-> 500]
            /\ UNCHANGED nodeList
       ELSE /\ result' = [status |-> 201]
            /\ nodeList' = Append(nodeList, PostedNode(id))
    /\ UNCHANGED <<connections, nodes, adjacencyList, messages, serviceVars>>

\* GET /api/nodes, /api/connections and /api/messages: what a client sees.
GetAll ==
  \E table \in {"nodes", "connections", "messages"} :
    /\ call' = [op |-> "getAll", start |-> table, end |-> NullId]
    /\ result' = CASE table = "nodes" -> nodeList
                   [] table = "connections" -> connections
                   [] OTHER -> messages
    /\ iterations' = 0
    /\ UNCHANGED <<nodeList, connections, nodes, adjacencyList, messages, serviceVars>>

NextBoot ==
  \/ BootCheck
  \/ BootInsertNodes
  \/ BootInsertConnections
  \/ BootInsertMessages
  \/ PostNode
  \/ GetAll

SpecBoot == InitBoot /\ [][NextBoot]_vars

\* ---------------------------------------------- BluetoothDiscoveryService
\* The ids of simulatedDevices and the rssi each is listed with.  The random
\* variation added on discovery is less than 5 either way and never changes
\* the order of the three.
DeviceIds == {"bt-001", "bt-002", "bt-003"}

Rssi(id) ==
  CASE id = "bt-001" -> 0 - 45
    [] id = "bt-002" -> 0 - 35
    [] OTHER -> 0 - 55

\* The service as its constructor leaves it: not scanning, nothing
\* discovered, the 30-second background interval running.  sinceCleanup
\* records that cleanup() has returned and startScanning() was not called
\* since; a device is held with whether its lastSeen is under a minute old.
InitBluetooth ==
  /\ nodeList = <<>>
  /\ connections = <<>>
  /\ nodes = <<>>
  /\ adjacencyList = <<>>
  /\ call = NoCall
  /\ result = null
  /\ iterations = 0
  /\ messages = <<>>
  /\ pc = "none"
  /\ bluetooth = [isScanning |-> FALSE, discoveredDevices |-> {},
                  subscribers |-> 0, sinceCleanup |-> FALSE]
  /\ stats = [isNull |-> TRUE]

\* simulateDeviceDiscovery(): the devices of found are set with a new
\* lastSeen, then those of lost are deleted.
simulateDeviceDiscovery(devices, found, lost) ==
  {d \in {e \in devices : e.id \notin found}
           \cup {[id |-> i, seenLately |-> TRUE] : i \in found} : d.id \notin lost}

RECURSIVE SortByRssi(_)
\* .sort((a, b) => b.rssi - a.rssi) over a set of device ids.
SortByRssi(S) ==
  IF S = {} THEN <<>>
  ELSE LET top == CHOOSE x \in S : \A y \in S : Rssi(y) <= Rssi(x)
       IN  <<top>> \o SortByRssi(S \ {top})

\* getDiscoveredDevices(): the devices seen within the last minute, strongest
\* signal first.
getDiscoveredDevices(devices) ==
  SortByRssi({d.id : d \in {e \in devices : e.seenLately}})

\* The frame of every step of the Bluetooth service.
BluetoothFrame ==
  UNCHANGED <<nodeList, connections, nodes, adjacencyList, iterations, messages,
              pc, stats>>

\* startScanning()
StartScanning ==
  /\ BluetoothFrame
  /\ call' = [op |-> "startScanning", start |-> NullId, end |-> NullId]
  /\ result' = null
  /\ IF bluetooth.isScanning
     THEN UNCHANGED bluetooth
     ELSE \E found \in SUBSET DeviceIds, lost \in SUBSET DeviceIds :
            bluetooth' = [bluetooth EXCEPT
              !.isScanning = TRUE,
              !.sinceCleanup = FALSE,
              !.discoveredDevices = simulateDeviceDiscovery(@, found, lost)]

\* stopScanning(); scanInterval is never assigned, so there is no interval
\* to clear.
StopScanning ==
  /\ BluetoothFrame
  /\ call' = [op |-> "stopScanning", start |-> NullId, end |-> NullId]
  /\ result' = null
  /\ bluetooth' = [bluetooth EXCEPT !.isScanning = FALSE]

\* The callback of the setInterval of startBackgroundScanning(), whose handle
\* is not kept and which nothing clears.
BackgroundScan ==
  /\ BluetoothFrame
  /\ call' = [op |-> "backgroundScan", start |-> NullId, end |-> NullId]
  /\ result' = null
  /\ IF bluetooth.isScanning
     THEN UNCHANGED bluetooth
     ELSE \E found \in SUBSET DeviceIds, lost \in SUBSET DeviceIds :
            bluetooth' = [bluetooth EXCEPT
              !.discoveredDevices = simulateDeviceDiscovery(@, found, lost)]

\* subscribe(callback)
Subscribe ==
  /\ BluetoothFrame
  /\ bluetooth.subscribers = 0
  /\ call' = [op |-> "subscribe", start |-> NullId, end |-> NullId]
  /\ result' = getDiscoveredDevices(bluetooth.discoveredDevices)
  /\ bluetooth' = [bluetooth EXCEPT !.subscribers = 1]

\* cleanup()
Cleanup ==
  /\ BluetoothFrame
  /\ call' = [op |-> "cleanup", start |-> NullId, end |-> NullId]
  /\ result' = null
  /\ bluetooth' = [isScanning |-> FALSE, discoveredDevices |-> {},
                   subscribers |-> 0, sinceCleanup |-> TRUE]

\* getDiscoveredDevices() called from outside.
GetDiscoveredDevices ==
  /\ BluetoothFrame
  /\ call' = [op |-> "getDiscoveredDevices", start |-> NullId, end |-> NullId]
  /\ result' = getDiscoveredDevices(bluetooth.discoveredDevices)
  /\ UNCHANGED bluetooth

\* A minute passes: every lastSeen held is now a minute old.
MinutePasses ==
  /\ BluetoothFrame
  /\ UNCHANGED <<call, result>>
  /\ bluetooth' = [bluetooth EXCEPT !.discoveredDevices =
                     {[id |-> d.id, seenLately |-> FALSE] : d \in @}]

NextBluetooth ==
  \/ StartScanning
  \/ StopScanning
  \/ BackgroundScan
  \/ Subscribe
  \/ Cleanup
  \/ GetDiscoveredDevices
  \/ MinutePasses

SpecBluetooth == InitBluetooth /\ [][NextBluetooth]_vars

\* ------------------------------------------------------- NetworkSimulation
\* The node lists setData may bring: the first k ids of ViewIds, each node
\* online with signal strength 60 or offline with signal strength 0 or 60.
SimNodeLists ==
  UNION {{[i \in 1..k |-> [nodeId |-> ViewIds[i], isOnline |-> o[i][1],
                           signalStrength |-> o[i][2]]] :
            o \in [1..k -> {<<TRUE, 60>>, <<FALSE, 0>>, <<FALSE, 60>>}]} :
         k \in 0..Len(ViewIds)}

\* The stats setData brings with a node list: its online nodes counted.
SimStats(ns) ==
  [connectedNodes |-> Cardinality({i \in 1..Len(ns) : ns[i].isOnline}),
   averageLatency |-> 20]

\* The outcomes drawn for Math.floor(Math.random() * 50) + 20, for
\* Math.floor(Math.random() * 50) + 50 and for (Math.random() - 0.5) * 20.
LatencyDraws == {20, 69}

ReconnectDraws == {50, 90}

DeltaDraws == {0 - 10, 10}

\* new NetworkSimulation(): no nodes, no connections, zero stats, the
\* 5-second interval running.
InitSim ==
  /\ nodeList = <<>>
  /\ connections = <<>>
  /\ nodes = <<>>
  /\ adjacencyList = <<>>
  /\ call = NoCall
  /\ result = null
  /\ iterations = 0
  /\ messages = <<>>
  /\ pc = "none"
  /\ bluetooth = [isNull |-> TRUE]
  /\ stats = [connectedNodes |-> 0, averageLatency |-> 0]

\* setData(nodes, connections, stats)
SetData ==
  \E ns \in SimNodeLists :
    /\ nodeList' = ns
    /\ stats' = SimStats(ns)
    /\ call' = [op |-> "setData", start |-> NullId, end |-> NullId]
    /\ UNCHANGED <<connections, nodes, adjacencyList, result, iterations, messages,
                   pc, bluetooth>>

\* The filter of simulateNodeChange that spares every node.
IsChangeable_Any(node) == TRUE

\* The filter of simulateNodeChange.
IsChangeable(node) == node.nodeId # "user"

Max(a, b) == IF a >= b THEN a ELSE b

Min(a, b) == IF a <= b THEN a ELSE b

\* The positions of the nodes simulateNodeChange may pick.
Changeable(ns) == {i \in 1..Len(ns) : IsChangeable(ns[i])}

\* simulateNodeChange() with its random outcomes: pick is the position drawn
\* among the changeable nodes (0 when there is none), roll the outcome of the
\* one Math.random() test the picked node's state lets run, strength the
\* signal strength drawn for a reconnection.  It gives the node list, the
\* stats and the node it switched.
simulateNodeChange(ns, st, pick, roll, strength) ==
  IF Changeable(ns) = {}
  THEN [nodes |-> ns, stats |-> st, switched |-> NullId, to |-> "none"]
  ELSE IF ns[pick].isOnline /\ roll
  THEN [nodes |-> [ns EXCEPT ![pick].isOnline = FALSE,
                             ![pick].signalStrength = 0],
        stats |-> [st EXCEPT !.connectedNodes = Max(0, @ - 1)],
        switched |-> ns[pick].nodeId, to |-> "offline"]
  ELSE IF ~ns[pick].isOnline /\ roll
  THEN [nodes |-> [ns EXCEPT ![pick].isOnline = TRUE,
                             ![pick].signalStrength = strength],
        stats |-> [st EXCEPT !.connectedNodes = @ + 1],
        switched |-> ns[pick].nodeId, to |-> "online"]
  ELSE [nodes |-> ns, stats |-> st, switched |-> NullId, to |-> "none"]

\* The interval callback simulateNetworkChanges(): a new average latency, with
\* the 10% chance simulateNodeChange(), then for the online nodes the 30%
\* chance drew (those of moved) a signal strength moved by a delta and kept
\* within 20 and 100.
Tick ==
  \E latency \in LatencyDraws, change \in BOOLEAN,
     pick \in IF Changeable(nodeList) = {} THEN {0} ELSE Changeable(nodeList),
     roll \in BOOLEAN, strength \in ReconnectDraws,
     moved \in SUBSET (1..Len(nodeList)), delta \in DeltaDraws :
    LET st0 == [stats EXCEPT !.averageLatency = latency]
        after == IF change
                 THEN simulateNodeChange(nodeList, st0, pick, roll, strength)
                 ELSE [nodes |-> nodeList, stats |-> st0, switched |-> NullId,
                       to |-> "none"]
    IN  /\ after.stats.connectedNodes <= Len(ViewIds)
        /\ nodeList' =
             [i \in 1..Len(nodeList) |->
                IF after.nodes[i].isOnline /\ i \in moved
                THEN [after.nodes[i] EXCEPT !.signalStrength =
                        Max(20, Min(100, @ + delta))]
                ELSE after.nodes[i]]
        /\ stats' = after.stats
        /\ call' = [op |-> "tick", start |-> after.switched, end |-> after.to]
        /\ UNCHANGED <<connections, nodes, adjacencyList, result, iterations,
                       messages, pc, bluetooth>>

NextSim ==
  \/ SetData
  \/ Tick

SpecSim == InitSim /\ [][NextSim]_vars

\* ------------------------------------------------- reference definitions
\* What the claims speak of, read off the caller's node and connection
\* records alone, without the graph object or the engine's maps.
Vertices == {nodeList[i].nodeId : i \in 1..Len(nodeList)}

LinksBetween(a, b) ==
  {i \in 1..Len(connections) :
     /\ connections[i].isActive
     /\ \/ connections[i].fromNodeId = a /\ connections[i].toNodeId = b
        \/ connections[i].fromNodeId = b /\ connections[i].toNodeId = a}

\* An active link joins a and b.
ActiveLink(a, b) == LinksBetween(a, b) # {}

\* The weights (in tenths) of the active links between a and b.
LinkWeights(a, b) ==
  {connections[i].distance * 100 + connections[i].latency : i \in LinksBetween(a, b)}

\* A message at vertex a can cross an active link to b.
Step(a, b) == a \in Vertices /\ ActiveLink(a, b)

RECURSIVE Closure(_)
Closure(S) ==
  LET T == S \cup {b \in Vertices : \E a \in S : Step(a, b)}
  IN  IF T = S THEN S ELSE Closure(T)

\* The vertices joined to vertex x by a chain of active links between
\* vertices (x itself by the empty chain).
Joined(x) == IF x \in Vertices THEN Closure({x}) ELSE {}

IsInjective(q) == \A i, j \in 1..Len(q) : q[i] = q[j] => i = j

\* Every two consecutive ids of q are joined by an active link.
IsLinkedPath(q) == \A i \in 1..(Len(q) - 1) : ActiveLink(q[i], q[i + 1])

\* The paths from x to y that repeat no vertex.
SimplePaths(x, y) ==
  {q \in SeqsUpTo(Vertices, Cardinality(Vertices)) :
     /\ Len(q) > 0
     /\ q[1] = x
     /\ q[Len(q)] = y
     /\ IsInjective(q)
     /\ IsLinkedPath(q)}

RECURSIVE PathCosts(_, _)
\* The sums of link weights along q from position i on, one active link
\* taken for each two consecutive ids.
PathCosts(q, i) ==
  IF i >= Len(q) THEN {0}
  ELSE {w + c : w \in LinkWeights(q[i], q[i + 1]), c \in PathCosts(q, i + 1)}

MinOf(S) == CHOOSE m \in S : \A n \in S : m <= n

\* The least summed weight over all paths from x to y (y joined to x).
MinCost(x, y) == MinOf(UNION {PathCosts(q, 1) : q \in SimplePaths(x, y)})

RECURSIVE HopsFrom(_, _, _, _)
HopsFrom(frontier, seen, y, d) ==
  IF y \in frontier THEN d
  ELSE LET next == {b \in Ids : \E a \in frontier : Step(a, b)} \ seen
       IN  IF next = {} THEN Infinity ELSE HopsFrom(next, seen \cup next, y, d + 1)

\* The number of links on a fewest-links walk from x to y, Infinity if none.
HopDistance(x, y) == HopsFrom({x}, {x}, y, 0)

IsCall(op) == call.op = op

\* ------------------------------------------------------------------ claims
ActiveLinkRecord(a, b) ==
  [fromNodeId |-> a, toNodeId |-> b, distance |-> 1, latency |-> 10, isActive |-> TRUE]

\* The chain A-B-C of the spec's concrete scenario.
IsChainABC ==
  /\ nodeList = <<Node("A"), Node("B"), Node("C")>>
  /\ connections = <<ActiveLinkRecord("A", "B"), ActiveLinkRecord("B", "C")>>

\* C1: findShortestPath(X, Y), for distinct vertices X and Y joined by a chain
\* of active links, returns a non-null result whose totalDistance is the least
\* summed edge weight over all X-to-Y paths; on the chain A-B-C it returns
\* path [A, B, C], cost 21 and 2 hops.
C1_ShortestPathIsLeastCost ==
  IsCall("findShortestPath") =>
    /\ (call.start # call.end /\ call.end \in Joined(call.start)) =>
         /\ result # null
         /\ result.totalDistance = MinCost(call.start, call.end)
    /\ (IsChainABC /\ call.start = "A" /\ call.end = "C") =>
         result = [path |-> <<"A", "B", "C">>, totalDistance |-> 210, hops |-> 2]

\* C2: findShortestPath(X, Y) returns null when X or Y is not a vertex (X = Y
\* absent included) or no chain of active links joins X to Y.
C2_NullWhenAbsentOrUnjoined ==
  (/\ IsCall("findShortestPath")
   /\ \/ call.start \notin Vertices
      \/ call.end \notin Vertices
      \/ call.end \notin Joined(call.start))
  => result = null

\* A call with X = Y absent from the topology has returned null.
C2_Witness ==
  /\ IsCall("findShortestPath")
  /\ call.start = call.end
  /\ call.start \notin Vertices
  /\ Vertices # {}
  /\ result = null

\* C3: findShortestPath(X, X) for a vertex X returns exactly
\* {path: [X], totalDistance: 0, hops: 0}, and no pass of the search loop runs.
C3_SelfRoute ==
  (/\ IsCall("findShortestPath")
   /\ call.start = call.end
   /\ call.start \in Vertices)
  => /\ result = [path |-> <<call.start>>, totalDistance |-> 0, hops |-> 0]
     /\ iterations = 0

\* A self-route of a vertex that has an active link to another vertex.
C3_Witness ==
  /\ IsCall("findShortestPath")
  /\ call.start = call.end
  /\ call.start \in Vertices
  /\ Joined(call.start) # {call.start}
  /\ result = [path |-> <<call.start>>, totalDistance |-> 0, hops |-> 0]

\* C4: in a non-null result of findShortestPath every two consecutive ids of
\* the path are joined by an active link, and totalDistance is the sum of the
\* weights of those links recomputed from the connection list.
C4_CostIsSumOfLinkWeights ==
  (IsCall("findShortestPath") /\ result # null)
  => /\ IsLinkedPath(result.path)
     /\ result.totalDistance \in PathCosts(result.path, 1)

\* A non-null result returned on a topology that has active links.
C4_Witness ==
  /\ IsCall("findShortestPath")
  /\ result # null
  /\ \E a \in Vertices, b \in Vertices : a # b /\ ActiveLink(a, b)
  /\ result.totalDistance = 0

\* C5: a non-null result of findShortestPath(source, destination) has path[0]
\* = source, its last element = destination, no id twice, and hops =
\* path.length - 1.
C5_PathShape ==
  (IsCall("findShortestPath") /\ result # null)
  => /\ Len(result.path) > 0
     /\ result.path[1] = call.start
     /\ result.path[Len(result.path)] = call.end
     /\ IsInjective(result.path)
     /\ result.hops = Len(result.path) - 1

\* A non-null result has been returned.
C5_Witness ==
  /\ IsCall("findShortestPath")
  /\ result # null
  /\ result.hops = Len(result.path) - 1
  /\ call.start \in Joined(call.end)

\* C6: findAllPaths(X) for a vertex X has an entry for every vertex Y # X
\* joined to X by active links, none for X and none for any other vertex.
C6_AllPathsCoversJoined ==
  (IsCall("findAllPaths") /\ call.start \in Vertices)
  => SeqToSet(MapKeys(result)) = Joined(call.start) \ {call.start}

\* C7: findAllPaths(X) maps each vertex Y # X to exactly the value of
\* findShortestPath(X, Y) when that is non-null and has no key Y when it is
\* null.
C7_AllPathsAgreesWithShortestPath ==
  IsCall("findAllPaths") =>
    \A y \in Vertices \ {call.start} :
      LET r == findShortestPath(Graph, call.start, y)
      IN  IF r # null
          THEN MapHas(result, y) /\ MapGet(result, y) = r
          ELSE ~MapHas(result, y)

\* findAllPaths has run from a vertex that has two other vertices to look at,
\* one of them joined to it.
C7_Witness ==
  /\ IsCall("findAllPaths")
  /\ call.start \in Vertices
  /\ Cardinality(Vertices) = 3
  /\ Cardinality(Joined(call.start)) = 2
  /\ \A y \in Vertices \ {call.start} :
       MapHas(result, y) <=> findShortestPath(Graph, call.start, y) # null

\* C8: broadcastPath(source) for a vertex source starts with source, holds
\* every vertex joined to source by active links exactly once and no other
\* vertex; for an isolated vertex D it is [D].
C8_BroadcastCoversJoined ==
  (IsCall("broadcastPath") /\ call.start \in Vertices)
  => /\ result[1] = call.start
     /\ IsInjective(result)
     /\ SeqToSet(result) \cap Vertices = Joined(call.start)
     /\ (\A b \in Ids : ~Step(call.start, b)) => result = <<call.start>>

\* A broadcast over a triangle of active links, where the third vertex is
\* enqueued twice, has returned all three vertices.
C8_Witness ==
  /\ IsCall("broadcastPath")
  /\ call.start \in Vertices
  /\ \A a \in Ids, b \in Ids : a # b => Step(a, b)
  /\ Len(result) = 3

\* C9: along the sequence broadcastPath(source) returns, the hop distance from
\* source (links on a fewest-links walk) never decreases.
C9_BroadcastLayered ==
  IsCall("broadcastPath") =>
    /\ \A i \in 1..Len(result) : HopDistance(call.start, result[i]) # Infinity
    /\ \A i \in 1..(Len(result) - 1) :
         ~Less(HopDistance(call.start, result[i + 1]),
               HopDistance(call.start, result[i]))

\* A broadcast has returned ids at hop distances 0, 1 and 2.
C9_Witness ==
  /\ IsCall("broadcastPath")
  /\ Len(result) = 3
  /\ HopDistance(call.start, result[2]) = 1
  /\ HopDistance(call.start, result[3]) = 2

\* C10: broadcastPath(source) with a source that is not a vertex returns
\* [source].
C10_BroadcastUnknownSource ==
  (IsCall("broadcastPath") /\ call.start \notin Vertices)
  => result = <<call.start>>

\* A broadcast from an id that is no vertex but is named by an active link.
C10_Witness ==
  /\ IsCall("broadcastPath")
  /\ call.start \notin Vertices
  /\ \E a \in Vertices : ActiveLink(a, call.start)
  /\ result = <<call.start>>

\* The weight (in tenths) of connection record i, from its two fields.
WeightOfLink(i) == connections[i].distance * 100 + connections[i].latency

\* The neighbor map of vertex a has b with weight w.
HasNeighbor(a, b, w) ==
  /\ MapHas(adjacencyList, a)
  /\ MapHas(MapGet(adjacencyList, a), b)
  /\ MapGet(MapGet(adjacencyList, a), b) = w

MaxOf(S) == CHOOSE m \in S : \A n \in S : n <= m

\* C11 as stated: for every active link (A, B) between vertices, with
\* distance d and latency l, the neighbor map of A has B and that of B has A,
\* both with weight d * 10 + l / 10, also when several links join A and B.
C11_EveryLinkWeightInBothMaps ==
  \A i \in 1..Len(connections) :
    LET a == connections[i].fromNodeId
        b == connections[i].toNodeId
    IN  (connections[i].isActive /\ a \in Vertices /\ b \in Vertices)
        => HasNeighbor(a, b, WeightOfLink(i)) /\ HasNeighbor(b, a, WeightOfLink(i))

\* C11 amended: for every two vertices A, B joined by an active link, the
\* neighbor map of A has B and that of B has A, both with the weight
\* d * 10 + l / 10 of the last active link between A and B in the link list.
C11_LastLinkWeightInBothMaps ==
  \A a \in Vertices, b \in Vertices :
    ActiveLink(a, b) =>
      LET w == WeightOfLink(MaxOf(LinksBetween(a, b)))
      IN  HasNeighbor(a, b, w) /\ HasNeighbor(b, a, w)

\* Two vertices are joined by two active links of different weights.
C11_Witness ==
  \E a \in Vertices, b \in Vertices :
    /\ Cardinality(LinkWeights(a, b)) = 2
    /\ HasNeighbor(a, b, WeightOfLink(MaxOf(LinksBetween(a, b))))

\* C12 as stated: whenever B is in the neighbor map of A with weight w, B is
\* a vertex and A is in the neighbor map of B with weight w.
C12_AdjacencySymmetric ==
  \A i \in 1..Len(adjacencyList) :
    \A j \in 1..Len(adjacencyList[i].value) :
      LET a == adjacencyList[i].key
          b == adjacencyList[i].value[j].key
          w == adjacencyList[i].value[j].value
      IN  b \in Vertices /\ HasNeighbor(b, a, w)

\* C12 amended: whenever B is in the neighbor map of A with weight w, either
\* B is a vertex and A is in the neighbor map of B with weight w, or B is not
\* a vertex and has no neighbor map.
C12_AdjacencySymmetricOnVertices ==
  \A i \in 1..Len(adjacencyList) :
    \A j \in 1..Len(adjacencyList[i].value) :
      LET a == adjacencyList[i].key
          b == adjacencyList[i].value[j].key
          w == adjacencyList[i].value[j].value
      IN  /\ a \in Vertices
          /\ IF b \in Vertices THEN HasNeighbor(b, a, w)
                               ELSE ~MapHas(adjacencyList, b)

\* A vertex has both a vertex and an id absent from the node list as
\* neighbors.
C12_Witness ==
  \E a \in Vertices, b \in Vertices, c \in Ids \ Vertices :
    /\ a # b
    /\ \E w \in LinkWeights(a, b) : HasNeighbor(a, b, w) /\ HasNeighbor(b, a, w)
    /\ \E w \in LinkWeights(a, c) : HasNeighbor(a, c, w)

\* b is in the neighbor map of a.
IsNeighbor(a, b) ==
  MapHas(adjacencyList, a) /\ MapHas(MapGet(adjacencyList, a), b)

\* C13: two vertices are neighbors in the built topology exactly when the
\* link list has an active link between them; once a link has been turned
\* inactive and the topology rebuilt, findShortestPath returns null for every
\* two vertices no chain of active links joins any more.
C13_NeighborsIffActiveLink ==
  /\ \A a \in Vertices, b \in Vertices : IsNeighbor(a, b) <=> ActiveLink(a, b)
  /\ IsCall("deactivateLink") =>
       \A x \in Vertices, y \in Vertices :
         y \notin Joined(x) => findShortestPath(Graph, x, y) = null

\* The chain A-B-C after its link B-C has been turned inactive.
C13_Witness ==
  /\ IsCall("deactivateLink")
  /\ call.start = "B" /\ call.end = "C"
  /\ Vertices = {"A", "B", "C"}
  /\ ActiveLink("A", "B")
  /\ ~IsNeighbor("B", "C") /\ ~IsNeighbor("C", "B")
  /\ "C" \notin Joined("A")
  /\ findShortestPath(Graph, "A", "C") = null

\* The connection records both of whose endpoints are in the node list.
LinksAmongVertices ==
  SelectSeq(connections,
            LAMBDA c : c.fromNodeId \in Vertices /\ c.toNodeId \in Vertices)

\* An active link names an id absent from the node list.
HasDanglingLink ==
  \E i \in 1..Len(connections) :
    /\ connections[i].isActive
    /\ \/ connections[i].fromNodeId \notin Vertices
       \/ connections[i].toNodeId \notin Vertices

\* The entries of neighbor map m whose key is a vertex.
VertexEntries(m) == SelectSeq(m, LAMBDA e : e.key \in Vertices)

\* C14: a topology built from a link list with an active link to an id absent
\* from the node list has a vertex and a neighbor map for the ids of the node
\* list only, and between vertices it has the edges the list without that
\* link gives.
C14_AbsentEndpointTolerated ==
  HasDanglingLink =>
    /\ MapKeys(nodes) = [i \in 1..Len(nodeList) |-> nodeList[i].nodeId]
    /\ MapKeys(adjacencyList) = MapKeys(nodes)
    /\ LET clean == NetworkGraph(nodeList, LinksAmongVertices).adjacencyList
       IN  \A i \in 1..Len(adjacencyList) :
             VertexEntries(adjacencyList[i].value) = clean[i].value

\* An active link to an absent id stands in the list before an active link
\* between two vertices, and both were inserted.
C14_Witness ==
  \E i, j \in 1..Len(connections) :
    /\ i < j
    /\ connections[i].isActive /\ connections[j].isActive
    /\ connections[i].fromNodeId \in Vertices
    /\ connections[i].toNodeId \notin Vertices
    /\ IsNeighbor(connections[i].fromNodeId, connections[i].toNodeId)
    /\ connections[j].fromNodeId \in Vertices
    /\ connections[j].toNodeId \in Vertices
    /\ IsNeighbor(connections[j].toNodeId, connections[j].fromNodeId)
    /\ ~MapHas(adjacencyList, connections[i].toNodeId)

\* The totalDistance findShortestPath reports, Infinity for a null result.
RouteCost(g, x, y) ==
  LET r == findShortestPath(g, x, y)
  IN  IF r = null THEN Infinity ELSE r.totalDistance

\* C15: turning one active link inactive and rebuilding the topology never
\* makes the cost findShortestPath(X, Y) reports smaller, a null result
\* counting as infinite cost.
C15_CostNeverDecreasesOnRemoval ==
  [][\A x \in Ids, y \in Ids :
       ~Less(RouteCost(Graph', x, y), RouteCost(Graph, x, y))]_vars

\* A link between two vertices has been turned inactive; the two are no
\* longer joined and the cost reported between them is infinite.
C15_Witness ==
  /\ IsCall("deactivateLink")
  /\ call.start \in Vertices /\ call.end \in Vertices
  /\ call.end \notin Joined(call.start)
  /\ RouteCost(Graph, call.start, call.end) = Infinity
  /\ RouteCost(Graph, call.start, call.start) = 0

\* What the query of the last call returns on graph g.
QueryOn(g) ==
  CASE call.op = "findShortestPath" -> findShortestPath(g, call.start, call.end)
    [] call.op = "findAllPaths" -> findAllPaths(g, call.start)
    [] call.op = "broadcastPath" -> broadcastPath(g, call.start)
    [] OTHER -> null

\* C16: a query leaves the node map, the adjacency map and the caller's node
\* and link records as they were, and after any sequence of queries the last
\* one has returned what it returns on a graph freshly built from the records.
C16_QueriesLeaveGraphUnchanged ==
  /\ [][UNCHANGED <<nodes, adjacencyList, nodeList, connections>>]_vars
  /\ [](result = QueryOn(NetworkGraph(nodeList, connections)))

\* A broadcast that visited three vertices, on a graph still equal to the one
\* its records build.
C16_Witness ==
  /\ IsCall("broadcastPath")
  /\ Len(result) = 3
  /\ Graph = NetworkGraph(nodeList, connections)
  /\ result = QueryOn(NetworkGraph(nodeList, connections))

\* Node id with every field but the id changed.
AlteredNode(id) ==
  [nodeId |-> id, isOnline |-> FALSE, signalStrength |-> 0, name |-> "renamed",
   latitude |-> 1, longitude |-> 1]

\* The node lists with the ids of ns in the same order, each node as it is or
\* altered.
NodeListVariants(ns) ==
  {v \in [1..Len(ns) -> {ns[i] : i \in 1..Len(ns)}
                          \cup {AlteredNode(ns[i].nodeId) : i \in 1..Len(ns)}] :
     \A i \in 1..Len(ns) : v[i].nodeId = ns[i].nodeId}

IsOffline(id) ==
  \E i \in 1..Len(nodeList) : nodeList[i].nodeId = id /\ ~nodeList[i].isOnline

\* C18: a point-to-point message the view has sent to a recipient that a
\* chain of active links joins to "user" carries as routingPath a least-cost
\* path from "user" to the recipient, and as hops the length of that path
\* minus 1.
C18_MessageRoutedOnLeastCostPath ==
  (/\ IsCall("sendMessage")
   /\ result.status = "sent"
   /\ result.message.receiverId \in Joined("user"))
  => LET m == result.message
     IN  /\ m.routingPath \in SimplePaths("user", m.receiverId)
         /\ MinCost("user", m.receiverId) \in PathCosts(m.routingPath, 1)
         /\ m.hops = Len(m.routingPath) - 1

\* The messages the last POST /api/sos answered with.
SosCreated == result.messages

\* C19: a POST /api/sos from S answered 200 has created, and stored, exactly
\* one message for each node of the snapshot that is online and is not S, of
\* type "sos", with routingPath [S, nodeId] and hops 1, none for S or for an
\* offline node, and reports their number as recipientCount; the recipients
\* are read off the node snapshot alone.
C19_SosReachesEveryOnlineNode ==
  (IsCall("sos") /\ result.status = 200)
  => LET S == call.start
         recipients == {nodeList[i].nodeId : i \in {j \in 1..Len(nodeList) :
                          nodeList[j].isOnline /\ nodeList[j].nodeId # S}}
     IN  /\ \A r \in recipients :
               Cardinality({k \in 1..Len(SosCreated) : SosCreated[k].receiverId = r}) = 1
         /\ \A k \in 1..Len(SosCreated) :
               /\ SosCreated[k].receiverId \in recipients
               /\ SosCreated[k].senderId = S
               /\ SosCreated[k].messageType = "sos"
               /\ SosCreated[k].routingPath = <<S, SosCreated[k].receiverId>>
               /\ SosCreated[k].hops = 1
         /\ result.recipientCount = Len(SosCreated)
         /\ Len(messages) >= Len(SosCreated)
         /\ SubSeq(messages, Len(messages) - Len(SosCreated) + 1, Len(messages)) = SosCreated

\* An SOS from "user", online itself, with A offline and B online and no
\* active link at all: one message, to B.
C19_Witness ==
  /\ IsCall("sos")
  /\ result.status = 200
  /\ call.start = "user"
  /\ Len(nodeList) = 3
  /\ nodeList[1].isOnline /\ ~nodeList[2].isOnline /\ nodeList[3].isOnline
  /\ \A a \in Vertices, b \in Vertices : ~ActiveLink(a, b)
  /\ Len(SosCreated) = 1
  /\ SosCreated[1].receiverId = "B"
  /\ messages = SosCreated

\* Some path from x to y passes through online nodes only.
OnlinePathExists(x, y) ==
  \E q \in SimplePaths(x, y) : \A i \in 2..(Len(q) - 1) : ~IsOffline(q[i])

\* C20: a path calculateOptimalRoute returns has no offline node as an
\* intermediate hop, and one is returned when a path through online nodes
\* exists; the order calculateBroadcastRoute returns has no offline node
\* beyond its source.
C20_RoutesAvoidOfflineNodes ==
  /\ IsCall("calculateOptimalRoute")
     => /\ result # null
           => \A i \in 2..(Len(result.path) - 1) : ~IsOffline(result.path[i])
        /\ OnlinePathExists(call.start, call.end) => result # null
  /\ IsCall("calculateBroadcastRoute")
     => \A i \in 1..Len(result) : result[i] # call.start => ~IsOffline(result[i])

\* C21: in a findShortestPath(start, end) call with start # end, both
\* vertices, the first pass of the search loop selects start, takes it out of
\* the unvisited set, and gives each neighbor of start the weight of the
\* edge to it as its tentative distance.
C21_FirstPassSelectsStart ==
  (/\ IsCall("findShortestPath")
   /\ call.start # call.end
   /\ call.start \in Vertices /\ call.end \in Vertices)
  => LET pass == SearchPass(Graph, call.end, InitSearch(Graph, call.start))
     IN  /\ pass.current = call.start
         /\ ~Contains(pass.s.unvisited, call.start)
         /\ \A n \in Vertices \ {call.start} :
              IsNeighbor(call.start, n)
              => pass.s.distances[n] = MapGet(MapGet(adjacencyList, call.start), n)

\* The vertices the search loop of the last call took out of the unvisited
\* set, and the distances it ended with.
FinalSearch == SearchLoop(Graph, call.end, InitSearch(Graph, call.start))

Settled == Vertices \ SeqToSet(FinalSearch.unvisited)

RECURSIVE SumOver(_, _)
\* The sum of f[x] over the set S.
SumOver(f, S) ==
  IF S = {} THEN 0
  ELSE LET x == CHOOSE y \in S : TRUE IN f[x] + SumOver(f, S \ {x})

\* The passes of the search loop one findShortestPath(start, y) begins.
PassesTo(y) == FindShortestPathRun(Graph, call.start, y).iterations

\* C23: every query returns after a number of steps its input bounds: a
\* findShortestPath call begins at most one pass of the search loop per
\* vertex and its walk over the predecessors from the destination repeats no
\* node; findAllPaths begins at most that many passes for each vertex; and
\* broadcastPath empties its queue after at most one shift for the start and
\* one for each end of each link.
C23_QueriesTerminate ==
  /\ IsCall("findShortestPath")
     => /\ iterations <= Cardinality(Vertices)
        /\ IsInjective(ReconstructPath(FinalSearch.previous, call.end, <<>>))
  /\ IsCall("findAllPaths")
     => SumOver([y \in Vertices |-> PassesTo(y)], Vertices)
          <= Cardinality(Vertices) * Cardinality(Vertices)
  /\ IsCall("broadcastPath")
     => /\ BroadcastRun(Graph, call.start).queue = <<>>
        /\ BroadcastRun(Graph, call.start).shifts <= 1 + 2 * Len(connections)
        /\ result = BroadcastRun(Graph, call.start).broadcastOrder

\* A broadcast over the cycle A-B-C-A: three nodes visited, and a fourth
\* shift for the entry the queue held twice.
C23_Witness ==
  /\ IsCall("broadcastPath")
  /\ Len(result) = 3
  /\ ActiveLink("A", "B") /\ ActiveLink("B", "C") /\ ActiveLink("A", "C")
  /\ BroadcastRun(Graph, call.start).shifts = 4

\* C24: every message the messages view has posted carries a routingPath
\* whose consecutive ids are each joined by an active link of the view's
\* connection list; in particular, with no route to the recipient, the
\* message carries no path that claims a direct link.
C24_PostedPathFollowsActiveLinks ==
  (IsCall("sendMessage") /\ result.status = "sent")
  => /\ IsLinkedPath(result.message.routingPath)
     /\ result.message.receiverId \notin Joined("user")
        => result.message.routingPath # <<"user", result.message.receiverId>>

\* Row c joins a and b, in either direction.
IsBetween(c, a, b) ==
  \/ c.fromNodeId = a /\ c.toNodeId = b
  \/ c.fromNodeId = b /\ c.toNodeId = a

\* C25: updateConnectionStatus(fromNodeId, toNodeId, isActive) leaves every
\* connection row unchanged whose endpoints are not fromNodeId and toNodeId.
C25_UpdateTouchesOnlyTheNamedLink ==
  [][call'.op = "updateConnectionStatus"
     => /\ Len(connections') = Len(connections)
        /\ \A i \in 1..Len(connections) :
             ~IsBetween(connections[i], call'.start, call'.end)
             => connections'[i] = connections[i]]_vars

\* C26: getConnectionsForNode(N) returns every stored connection that has N
\* as its fromNodeId or as its toNodeId.
C26_ConnectionsOfEitherEndpoint ==
  IsCall("getConnectionsForNode")
  => \A i \in 1..Len(connections) :
       (connections[i].fromNodeId = call.start \/ connections[i].toNodeId = call.start)
       => Contains(result, connections[i])

\* C27: a POST /api/sos answered with status 500 leaves the stored messages
\* as they were before the request.
C27_FailedSosStoresNothing ==
  [][(call'.op = "sos" /\ result'.status = 500) => messages' = messages]_vars

\* Every row of q is stored in table t; no row of q is.
AllStored(q, t) == \A i \in 1..Len(q) : Contains(t, q[i])

NoneStored(q, t) == \A i \in 1..Len(q) : ~Contains(t, q[i])

\* C28: in every state a request can observe, either none of the default
\* nodes, connections and sample messages are stored or all of them are, also
\* with a POST /api/nodes between the existence check and the inserts; and
\* once the initialization has ended on a database that was empty when the
\* server started, all of them are stored.
C28_DefaultDataAllOrNothing ==
  /\ \/ /\ NoneStored(defaultNodes, nodeList)
        /\ NoneStored(defaultConnections, connections)
        /\ NoneStored(sampleMessages, messages)
     \/ /\ AllStored(defaultNodes, nodeList)
        /\ AllStored(defaultConnections, connections)
        /\ AllStored(sampleMessages, messages)
  /\ (pc.at = "done" /\ pc.emptyAtStart)
     => /\ AllStored(defaultNodes, nodeList)
        /\ AllStored(defaultConnections, connections)
        /\ AllStored(sampleMessages, messages)

\* C29: from the return of cleanup() until the next startScanning(), the
\* discovered-device map stays empty and getDiscoveredDevices() returns an
\* empty list.
C29_NoDiscoveryAfterCleanup ==
  bluetooth.sinceCleanup
  => /\ bluetooth.discoveredDevices = {}
     /\ IsCall("getDiscoveredDevices") => result = <<>>

\* C30: a tick of the simulation keeps the nodes and their order, leaves the
\* isOnline flag of the node "user" as it was, and gives every node it has
\* switched from online to offline the signal strength 0.
C30_SimulationSparesUser ==
  [][call'.op = "tick"
     => /\ Len(nodeList') = Len(nodeList)
        /\ \A i \in 1..Len(nodeList) :
             /\ nodeList'[i].nodeId = nodeList[i].nodeId
             /\ nodeList[i].nodeId = "user"
                => nodeList'[i].isOnline = nodeList[i].isOnline
             /\ (nodeList[i].isOnline /\ ~nodeList'[i].isOnline)
                => nodeList'[i].signalStrength = 0]_vars

\* A tick has switched A offline while "user" and B are online.
C30_Witness ==
  /\ IsCall("tick")
  /\ call.start = "A" /\ call.end = "offline"
  /\ Len(nodeList) = 3
  /\ nodeList[1].nodeId = "user" /\ nodeList[1].isOnline
  /\ ~nodeList[2].isOnline /\ nodeList[2].signalStrength = 0
  /\ nodeList[3].isOnline

====
